---- MODULE Spec2Model ----
(***************************************************************************)
(* Model of the event-date-time-nlp parser (api/parsing/rules.py and       *)
(* api/parsing/parser.py).  Text is a sequence of one-character strings.   *)
(* The regular expressions of rules.py are kept as syntax trees and        *)
(* matched by a backtracking matcher with the priorities of Python's re    *)
(* module (leftmost start, greedy repetition, ordered alternation).        *)
(***************************************************************************)
EXTENDS Integers, Sequences, FiniteSets, TLC

\* ------------------------------------------------------------------------
\* Characters and strings (str methods used by the source)
\* ------------------------------------------------------------------------

\* Python's None; (h, m) tuples, datetimes and strings are sequences as well
None == <<>>

DigitChars == <<"0", "1", "2", "3", "4", "5", "6", "7", "8", "9">>
UpperChars == <<"A", "B", "C", "D", "E", "F", "G", "H", "I", "J", "K", "L", "M",
                "N", "O", "P", "Q", "R", "S", "T", "U", "V", "W", "X", "Y", "Z">>
LowerChars == <<"a", "b", "c", "d", "e", "f", "g", "h", "i", "j", "k", "l", "m",
                "n", "o", "p", "q", "r", "s", "t", "u", "v", "w", "x", "y", "z">>

Range(f) == {f[x] : x \in DOMAIN f}

Digit == Range(DigitChars)
Alpha == Range(UpperChars) \cup Range(LowerChars)
Space == {" "}
WordChar == Digit \cup Alpha \cup {"_"}

\* str.lower() on one character
LowerChar(c) ==
    IF c \in Range(UpperChars)
    THEN LowerChars[CHOOSE k \in DOMAIN UpperChars : UpperChars[k] = c]
    ELSE c

\* str.lower()
lower(s) == [k \in 1..Len(s) |-> LowerChar(s[k])]

RECURSIVE lstrip(_)
lstrip(s) == IF s # <<>> /\ Head(s) \in Space THEN lstrip(Tail(s)) ELSE s

RECURSIVE rstrip(_)
rstrip(s) ==
    IF s # <<>> /\ s[Len(s)] \in Space THEN rstrip(SubSeq(s, 1, Len(s) - 1)) ELSE s

\* str.strip()
strip(s) == rstrip(lstrip(s))

\* str.isdigit() / str.isalpha()
isdigit(s) == s # <<>> /\ \A k \in 1..Len(s) : s[k] \in Digit
isalpha(s) == s # <<>> /\ \A k \in 1..Len(s) : s[k] \in Alpha

\* str.startswith(p)
startswith(s, p) == Len(s) >= Len(p) /\ SubSeq(s, 1, Len(p)) = p

\* str.replace(c, by) for a one-character c
RECURSIVE replace(_, _, _)
replace(s, c, by) ==
    IF s = <<>> THEN <<>>
    ELSE (IF Head(s) = c THEN by ELSE <<Head(s)>>) \o replace(Tail(s), c, by)

\* str.split(): the maximal runs of non-whitespace characters
RECURSIVE SplitFrom(_, _)
SplitFrom(s, cur) ==
    IF s = <<>> THEN (IF cur = <<>> THEN <<>> ELSE <<cur>>)
    ELSE IF Head(s) \in Space
         THEN (IF cur = <<>> THEN <<>> ELSE <<cur>>) \o SplitFrom(Tail(s), <<>>)
         ELSE SplitFrom(Tail(s), Append(cur, Head(s)))

split(s) == SplitFrom(s, <<>>)

\* ' '.join(words)
RECURSIVE join(_)
join(ws) ==
    IF ws = <<>> THEN <<>>
    ELSE IF Len(ws) = 1 THEN ws[1]
    ELSE ws[1] \o <<" ">> \o join(Tail(ws))

\* int(s) for a string of decimal digits
DigitValue(c) == (CHOOSE k \in DOMAIN DigitChars : DigitChars[k] = c) - 1

RECURSIVE int(_)
int(s) == IF s = <<>> THEN 0 ELSE 10 * int(SubSeq(s, 1, Len(s) - 1)) + DigitValue(s[Len(s)])

\* ------------------------------------------------------------------------
\* Regular expressions (the subset the source's patterns use)
\* ------------------------------------------------------------------------

Cls(cs)        == [t |-> "cls", c |-> cs]                 \* one character of cs
Seq_(rs)       == [t |-> "seq", rs |-> rs]                \* r1 r2 ... rn
Alt(rs)        == [t |-> "alt", rs |-> rs]                \* r1|r2|...|rn
Rep(r, lo, hi) == [t |-> "rep", r |-> r, lo |-> lo, hi |-> hi]   \* r{lo,hi}, greedy
Star(r)        == [t |-> "star", r |-> r]                 \* r*, greedy
Grp(n, r)      == [t |-> "grp", n |-> n, r |-> r]         \* capturing group n
WB             == [t |-> "wb"]                            \* \b

Lit(s)  == Seq_([k \in 1..Len(s) |-> Cls({s[k]})])
Plus(r) == Seq_(<<r, Star(r)>>)
Opt(r)  == Rep(r, 0, 1)

D  == Cls(Digit)                                          \* \d
S  == Cls(Space)                                          \* \s
D12 == Rep(D, 1, 2)                                       \* \d{1,2}
D2  == Rep(D, 2, 2)                                       \* \d{2}
AmPm == Alt(<<Lit(<<"a", "m">>), Lit(<<"p", "m">>)>>)     \* am|pm

IsWordAt(s, i) == i >= 1 /\ i <= Len(s) /\ s[i] \in WordChar

\* match.group(n) of a group that took no part in the match (falsy, like None)
NoGroups == [n \in 1..5 |-> <<>>]

RECURSIVE Matches(_, _, _, _)
RECURSIVE Continue(_, _, _)
\* Continue(rs, s, ms): every match of ms continued by the regex rs, in priority order
Continue(r, s, ms) ==
    IF ms = <<>> THEN <<>>
    ELSE Matches(r, s, Head(ms).e, Head(ms).g) \o Continue(r, s, Tail(ms))

RECURSIVE AltMatches(_, _, _, _)
AltMatches(rs, s, i, g) ==
    IF rs = <<>> THEN <<>>
    ELSE Matches(Head(rs), s, i, g) \o AltMatches(Tail(rs), s, i, g)

Progress(ms, i) == SelectSeq(ms, LAMBDA m : m.e > i)

\* Matches(r, s, i, g): the ways r matches s from position i, as a sequence of
\* [e |-> position after the match, g |-> groups], most preferred first
Matches(r, s, i, g) ==
    CASE r.t = "cls" ->
            IF i <= Len(s) /\ s[i] \in r.c THEN <<[e |-> i + 1, g |-> g]>> ELSE <<>>
      [] r.t = "wb" ->
            IF IsWordAt(s, i - 1) # IsWordAt(s, i) THEN <<[e |-> i, g |-> g]>> ELSE <<>>
      [] r.t = "seq" ->
            IF r.rs = <<>> THEN <<[e |-> i, g |-> g]>>
            ELSE Continue(Seq_(Tail(r.rs)), s, Matches(Head(r.rs), s, i, g))
      [] r.t = "alt" -> AltMatches(r.rs, s, i, g)
      [] r.t = "rep" ->
            (IF r.hi > 0
             THEN Continue(Rep(r.r, IF r.lo > 0 THEN r.lo - 1 ELSE 0, r.hi - 1), s,
                           Progress(Matches(r.r, s, i, g), i))
             ELSE <<>>)
            \o (IF r.lo = 0 THEN <<[e |-> i, g |-> g]>> ELSE <<>>)
      [] r.t = "star" ->
            Continue(r, s, Progress(Matches(r.r, s, i, g), i)) \o <<[e |-> i, g |-> g]>>
      [] r.t = "grp" ->
            LET ms == Matches(r.r, s, i, g)
            IN  [k \in 1..Len(ms) |->
                    [e |-> ms[k].e,
                     g |-> [ms[k].g EXCEPT ![r.n] = SubSeq(s, i, ms[k].e - 1)]]]

NoMatch == [found |-> FALSE]

\* re.search(r, s): the preferred match at the leftmost position that has one
RECURSIVE SearchFrom(_, _, _)
SearchFrom(r, s, i) ==
    IF i > Len(s) + 1 THEN NoMatch
    ELSE LET ms == Matches(r, s, i, NoGroups)
         IN  IF ms # <<>>
             THEN [found |-> TRUE, b |-> i, e |-> ms[1].e, g |-> ms[1].g,
                   g0 |-> SubSeq(s, i, ms[1].e - 1)]
             ELSE SearchFrom(r, s, i + 1)

search(r, s) == SearchFrom(r, s, 1)

\* 'x' in s for a substring x
contains(s, x) ==
    \E k \in 1..(Len(s) - Len(x) + 1) : SubSeq(s, k, k + Len(x) - 1) = x

\* ------------------------------------------------------------------------
\* datetime values: <<day, hour, minute, second>>, day counted from an epoch;
\* second stands for everything below the minute
\* ------------------------------------------------------------------------

day(d)    == d[1]
hour(d)   == d[2]
minute(d) == d[3]
second(d) == d[4]

\* datetime + timedelta(minutes = n)
AddMinutes(d, n) ==
    LET total == (day(d) * 24 + hour(d)) * 60 + minute(d) + n
    IN  <<total \div (24 * 60), (total \div 60) % 24, total % 60, second(d)>>

Raised == <<"ValueError">>

\* datetime.replace(hour, minute, second = 0, microsecond = 0): ValueError when
\* a field is out of its range
datetime_replace(d, h, m) ==
    IF h \in 0..23 /\ m \in 0..59 THEN <<day(d), h, m, 0>> ELSE Raised

\* ------------------------------------------------------------------------
\* rules.py
\* ------------------------------------------------------------------------

At_ == Lit(<<"a", "t">>)
AtSign == Lit(<<"@">>)
Colon == Lit(<<":">>)
Dash == Lit(<<"-">>)
Now_ == Lit(<<"n", "o", "w">>)
To_ == Lit(<<"t", "o">>)

NoonRe == Seq_(<<WB, Lit(<<"n", "o", "o", "n">>), WB>>)
MidnightRe == Seq_(<<WB, Lit(<<"m", "i", "d", "n", "i", "g", "h", "t">>), WB>>)
AtNightRe == Seq_(<<WB, At_, Plus(S), Lit(<<"n", "i", "g", "h", "t">>), WB>>)

TIME_PATTERNS == <<
    <<Seq_(<<WB, Grp(1, D12), Star(S), AmPm, WB>>), "12h">>,
    <<Seq_(<<WB, At_, Plus(S), Grp(1, D12), Star(S), Opt(AmPm), WB>>), "at_12h">>,
    <<Seq_(<<AtSign, Grp(1, D12), Opt(Seq_(<<Star(S), AmPm>>)), WB>>), "at_12h">>,
    <<Seq_(<<AtSign, Plus(S), Grp(1, D12), Star(S), Opt(AmPm), WB>>), "at_12h">>,
    <<Seq_(<<WB, Grp(1, D12), Colon, Grp(2, D2), Star(S), Opt(AmPm), WB>>), "24h">>,
    <<Seq_(<<AtSign, Grp(1, D12), Colon, Grp(2, D2), Opt(Seq_(<<Star(S), AmPm>>)), WB>>), "24h">>,
    <<Seq_(<<AtSign, Plus(S), Grp(1, D12), Colon, Grp(2, D2), Star(S), Opt(AmPm), WB>>), "24h">>,
    <<NoonRe, "noon">>,
    <<MidnightRe, "midnight">>,
    <<AtNightRe, "at_night">> >>

RELATIVE_TIME_PATTERNS == <<
    <<Seq_(<<WB, Lit(<<"i", "n">>), Plus(S), Grp(1, Plus(D)), Plus(S),
             Lit(<<"h", "o", "u", "r">>), Opt(Lit(<<"s">>)), WB>>), "hours">>,
    <<Seq_(<<WB, Lit(<<"i", "n">>), Plus(S), Grp(1, Plus(D)), Plus(S),
             Lit(<<"m", "i", "n", "u", "t", "e">>), Opt(Lit(<<"s">>)), WB>>), "minutes">>,
    <<Seq_(<<WB, Lit(<<"i", "n">>), Plus(S), Grp(1, Plus(D)), Plus(S),
             Lit(<<"d", "a", "y">>), Opt(Lit(<<"s">>)), WB>>), "days">> >>

TIME_RANGE_PATTERNS == <<
    <<Seq_(<<Now_, Star(S), Dash, Star(S), Grp(1, D12), Star(S), Grp(2, AmPm)>>),
      "range_now_12h">>,
    <<Seq_(<<Now_, Plus(S), To_, Plus(S), Grp(1, D12), Star(S), Grp(2, AmPm)>>),
      "range_now_12h_to">>,
    <<Seq_(<<Grp(1, D12), Star(S), Dash, Star(S), Grp(2, D12), Star(S), Grp(3, AmPm)>>),
      "range_12h">>,
    <<Seq_(<<Grp(1, D12), Plus(S), To_, Plus(S), Grp(2, D12), Star(S), Grp(3, AmPm)>>),
      "range_12h_to">>,
    <<Seq_(<<Grp(1, D12), Colon, Grp(2, D2), Star(S), Dash, Star(S),
             Grp(3, D12), Colon, Grp(4, D2), Star(S), Opt(Grp(5, AmPm))>>),
      "range_24h">> >>

PM == <<"p", "m">>
AM == <<"a", "m">>

\* the 'pm'/'am' adjustment of extract_explicit_time on the matched text g0
ExplicitHour(h, g0) ==
    IF contains(g0, PM) /\ h # 12 THEN h + 12
    ELSE IF contains(g0, AM) /\ h = 12 THEN 0
    ELSE h

\* the body of the loop of extract_explicit_time from pattern k on
RECURSIVE ExplicitFrom(_, _)
ExplicitFrom(t, k) ==
    IF k > Len(TIME_PATTERNS) THEN None
    ELSE LET m == search(TIME_PATTERNS[k][1], t)
             ty == TIME_PATTERNS[k][2]
         IN  IF ~m.found THEN ExplicitFrom(t, k + 1)
             ELSE IF ty = "12h" THEN <<ExplicitHour(int(m.g[1]), m.g0), 0>>
             ELSE IF ty = "at_12h" THEN <<ExplicitHour(int(m.g[1]), m.g0), 0>>
             ELSE IF ty = "at_night" THEN <<20, 0>>
             ELSE IF ty = "24h" THEN <<ExplicitHour(int(m.g[1]), m.g0), int(m.g[2])>>
             ELSE ExplicitFrom(t, k + 1)

extract_explicit_time(txt, base_date) ==
    LET text_lower == lower(txt)
    IN  IF search(NoonRe, text_lower).found THEN <<12, 0>>
        ELSE IF search(MidnightRe, text_lower).found THEN <<0, 0>>
        ELSE IF search(AtNightRe, text_lower).found THEN <<20, 0>>
        ELSE ExplicitFrom(text_lower, 1)

RECURSIVE RelativeFrom(_, _, _)
RelativeFrom(t, base_date, k) ==
    IF k > Len(RELATIVE_TIME_PATTERNS) THEN None
    ELSE LET m == search(RELATIVE_TIME_PATTERNS[k][1], t)
             unit == RELATIVE_TIME_PATTERNS[k][2]
             value == int(m.g[1])
         IN  IF ~m.found THEN RelativeFrom(t, base_date, k + 1)
             ELSE IF unit = "hours" THEN AddMinutes(base_date, 60 * value)
             ELSE IF unit = "minutes" THEN AddMinutes(base_date, value)
             ELSE AddMinutes(base_date, 24 * 60 * value)

extract_relative_time(txt, base_date) == RelativeFrom(lower(txt), base_date, 1)

\* re.sub(r'\bw\b', full, s)
RECURSIVE SubWordFrom(_, _, _, _)
SubWordFrom(s, i, w, full) ==
    IF i > Len(s) THEN <<>>
    ELSE IF /\ i + Len(w) - 1 <= Len(s)
            /\ SubSeq(s, i, i + Len(w) - 1) = w
            /\ ~IsWordAt(s, i - 1)
            /\ ~IsWordAt(s, i + Len(w))
         THEN full \o SubWordFrom(s, i + Len(w), w, full)
         ELSE <<s[i]>> \o SubWordFrom(s, i + 1, w, full)

SubWord(s, w, full) == SubWordFrom(s, 1, w, full)

abbreviations == <<
    << <<"t", "m", "r">>, <<"t", "o", "m", "o", "r", "r", "o", "w">> >>,
    << <<"y", "e", "s", "t">>, <<"y", "e", "s", "t", "e", "r", "d", "a", "y">> >>,
    << <<"t", "d", "y">>, <<"t", "o", "d", "a", "y">> >>,
    << <<"t", "n">>, <<"t", "o", "n", "i", "g", "h", "t">> >> >>

RECURSIVE ApplyAbbreviations(_, _)
ApplyAbbreviations(s, k) ==
    IF k > Len(abbreviations) THEN s
    ELSE ApplyAbbreviations(SubWord(s, abbreviations[k][1], abbreviations[k][2]), k + 1)

\* normalize_text with '@' replaced by ' at ', set off by spaces
normalize_text_SpacedAt(txt) ==
    ApplyAbbreviations(replace(strip(lower(txt)), "@", <<" ", "a", "t", " ">>), 1)

normalize_text(txt) ==
    ApplyAbbreviations(replace(strip(lower(txt)), "@", <<"a", "t">>), 1)

\* the period adjustment of extract_time_range; period is 'am', 'pm' or None
RangeHour(h, period) ==
    IF period = PM THEN (IF h # 12 THEN h + 12 ELSE h)
    ELSE IF period = AM THEN (IF h = 12 THEN 0 ELSE h)
    ELSE h

\* the branches 'range_now_12h' and 'range_now_12h_to' on the match m
RangeNow12h(m, base_date) ==
    << <<hour(base_date), minute(base_date)>>, <<RangeHour(int(m.g[1]), lower(m.g[2])), 0>> >>

\* Range12h with the trailing period applied to the end hour only
Range12h_EndOnly(m) ==
    << <<int(m.g[1]), 0>>, <<RangeHour(int(m.g[2]), lower(m.g[3])), 0>> >>

\* the branches 'range_12h' and 'range_12h_to'
Range12h(m) ==
    << <<RangeHour(int(m.g[1]), lower(m.g[3])), 0>>,
       <<RangeHour(int(m.g[2]), lower(m.g[3])), 0>> >>

\* the branch 'range_24h'
Range24h(m) ==
    << <<RangeHour(int(m.g[1]), lower(m.g[5])), int(m.g[2])>>,
       <<RangeHour(int(m.g[3]), lower(m.g[5])), int(m.g[4])>> >>

\* the first pattern of TIME_RANGE_PATTERNS, from k on, that t matches
RECURSIVE FirstRangeMatch(_, _)
FirstRangeMatch(t, k) ==
    IF k > Len(TIME_RANGE_PATTERNS) THEN [found |-> FALSE, ty |-> "none"]
    ELSE LET m == search(TIME_RANGE_PATTERNS[k][1], t)
         IN  IF m.found THEN [found |-> TRUE, ty |-> TIME_RANGE_PATTERNS[k][2], m |-> m]
             ELSE FirstRangeMatch(t, k + 1)

RangeOf(t, base_date) ==
    LET f == FirstRangeMatch(t, 1)
    IN  IF ~f.found THEN None
        ELSE IF f.ty \in {"range_now_12h", "range_now_12h_to"} THEN RangeNow12h(f.m, base_date)
        ELSE IF f.ty \in {"range_12h", "range_12h_to"} THEN Range12h(f.m)
        ELSE Range24h(f.m)

extract_time_range(txt, base_date) == RangeOf(lower(txt), base_date)

merge_datetime_time(date_obj, time_tuple) ==
    IF time_tuple = None THEN date_obj
    ELSE datetime_replace(date_obj, time_tuple[1], time_tuple[2])

\* ------------------------------------------------------------------------
\* parser.py: the word tables of class Parser
\* ------------------------------------------------------------------------

TEMPORAL_PATTERNS == {"DATE", "TIME"}

COMMAND_VERBS == {
    <<"s", "e", "t">>, <<"c", "r", "e", "a", "t", "e">>, <<"s", "c", "h", "e", "d", "u", "l", "e">>,
    <<"a", "d", "d">>, <<"m", "a", "k", "e">>, <<"p", "l", "a", "n">>,
    <<"b", "o", "o", "k">>, <<"p", "u", "t">>, <<"e", "s", "t", "a", "b", "l", "i", "s", "h">>,
    <<"a", "r", "r", "a", "n", "g", "e">>, <<"o", "r", "g", "a", "n", "i", "z", "e">>, <<"s", "e", "t", "u", "p">> }

TEMPORAL_WORDS == {
    <<"t", "o", "m", "o", "r", "r", "o", "w">>, <<"t", "m", "r">>, <<"t", "o", "d", "a", "y">>,
    <<"t", "d", "y">>, <<"y", "e", "s", "t", "e", "r", "d", "a", "y">>, <<"y", "e", "s", "t">>,
    <<"n", "o", "w">>, <<"t", "o", "n", "i", "g", "h", "t">>, <<"m", "o", "n", "d", "a", "y">>,
    <<"m", "o", "n">>, <<"t", "u", "e", "s", "d", "a", "y">>, <<"t", "u", "e">>,
    <<"w", "e", "d", "n", "e", "s", "d", "a", "y">>, <<"w", "e", "d">>, <<"t", "h", "u", "r", "s", "d", "a", "y">>,
    <<"t", "h", "u">>, <<"f", "r", "i", "d", "a", "y">>, <<"f", "r", "i">>,
    <<"s", "a", "t", "u", "r", "d", "a", "y">>, <<"s", "a", "t">>, <<"s", "u", "n", "d", "a", "y">>,
    <<"s", "u", "n">>, <<"j", "a", "n", "u", "a", "r", "y">>, <<"j", "a", "n">>,
    <<"f", "e", "b", "r", "u", "a", "r", "y">>, <<"f", "e", "b">>, <<"m", "a", "r", "c", "h">>,
    <<"m", "a", "r">>, <<"a", "p", "r", "i", "l">>, <<"a", "p", "r">>,
    <<"m", "a", "y">>, <<"j", "u", "n", "e">>, <<"j", "u", "n">>,
    <<"j", "u", "l", "y">>, <<"j", "u", "l">>, <<"a", "u", "g", "u", "s", "t">>,
    <<"a", "u", "g">>, <<"s", "e", "p", "t", "e", "m", "b", "e", "r">>, <<"s", "e", "p">>,
    <<"o", "c", "t", "o", "b", "e", "r">>, <<"o", "c", "t">>, <<"n", "o", "v", "e", "m", "b", "e", "r">>,
    <<"n", "o", "v">>, <<"d", "e", "c", "e", "m", "b", "e", "r">>, <<"d", "e", "c">>,
    <<"a", "m">>, <<"p", "m">>, <<"n", "o", "o", "n">>,
    <<"m", "i", "d", "n", "i", "g", "h", "t">>, <<"a", "t">>, <<"@">>,
    <<"i", "n">>, <<"o", "n">>, <<"n", "e", "x", "t">>,
    <<"t", "h", "i", "s">>, <<"l", "a", "s", "t">>, <<"r", "e", "m", "i", "n", "d">>,
    <<"m", "e">>, <<"t", "o">>, <<"n", "i", "g", "h", "t">> }

TIME_UNITS == {
    <<"h", "o", "u", "r">>, <<"h", "o", "u", "r", "s">>, <<"m", "i", "n", "u", "t", "e">>,
    <<"m", "i", "n", "u", "t", "e", "s">>, <<"d", "a", "y">>, <<"d", "a", "y", "s">>,
    <<"w", "e", "e", "k">>, <<"w", "e", "e", "k", "s">>, <<"m", "o", "n", "t", "h">>,
    <<"m", "o", "n", "t", "h", "s">>, <<"y", "e", "a", "r">>, <<"y", "e", "a", "r", "s">> }

\* 'zero' 'one' is one string literal in the source: the set holds 'zeroone'
NUMBER_WORDS == {
    <<"z", "e", "r", "o", "o", "n", "e">>, <<"t", "w", "o">>, <<"t", "h", "r", "e", "e">>,
    <<"f", "o", "u", "r">>, <<"f", "i", "v", "e">>, <<"s", "i", "x">>,
    <<"s", "e", "v", "e", "n">>, <<"e", "i", "g", "h", "t">>, <<"n", "i", "n", "e">>,
    <<"t", "e", "n">>, <<"e", "l", "e", "v", "e", "n">>, <<"t", "w", "e", "l", "v", "e">>,
    <<"t", "w", "e", "n", "t", "y">>, <<"t", "h", "i", "r", "t", "y">>, <<"f", "o", "r", "t", "y">>,
    <<"f", "i", "f", "t", "y">> }

GENERIC_NOUNS == {
    <<"e", "v", "e", "n", "t">>, <<"m", "e", "e", "t", "i", "n", "g">>, <<"a", "p", "p", "o", "i", "n", "t", "m", "e", "n", "t">>,
    <<"r", "e", "m", "i", "n", "d", "e", "r">>, <<"c", "a", "l", "l">>, <<"t", "a", "s", "k">> }

Articles == { <<"a", "n">>, <<"a">>, <<"t", "h", "e">> }
DashOrTo == { <<"-">>, <<"t", "o">> }
AmOrPm == { AM, PM }
In_ == <<"i", "n">>
Night_ == <<"n", "i", "g", "h", "t">>

\* ------------------------------------------------------------------------
\* parser.py: the title strategies.  A doc is the tokenizer's answer: a
\* sequence of tokens [text, pos_, dep_, ent_type_, like_num, head], head
\* being the index of the token's syntactic head (its own index for a root).
\* Indices are 1-based here and 0-based in the source.
\* ------------------------------------------------------------------------

tlower(doc, i) == lower(doc[i].text)

\* token.children, in document order
Children(doc, v) == {j \in 1..Len(doc) : doc[j].head = v /\ j # v}

_should_skip_article(doc, i) ==
    IF tlower(doc, i) \notin Articles THEN FALSE
    ELSE IF i > 1 /\ tlower(doc, i - 1) \in COMMAND_VERBS THEN TRUE
    ELSE IF i < Len(doc) /\ tlower(doc, i + 1) \in GENERIC_NOUNS THEN TRUE
    ELSE FALSE

_get_time_phrase_indices(doc, i) ==
    LET n == Len(doc)
    IN  IF doc[i].like_num
        THEN (IF i < n /\ tlower(doc, i + 1) \in TIME_UNITS
              THEN {i, i + 1} \cup (IF i > 1 /\ tlower(doc, i - 1) = In_ THEN {i - 1} ELSE {})
              ELSE {})
             \cup
             (IF /\ i < n - 1
                 /\ tlower(doc, i + 1) \in DashOrTo
                 /\ doc[i + 2].like_num
                 /\ i < n - 2
                 /\ tlower(doc, i + 3) \in AmOrPm
              THEN {i, i + 1, i + 2, i + 3}
              ELSE {})
        ELSE (IF /\ tlower(doc, i) = In_
                 /\ i < n - 1
                 /\ (doc[i + 1].like_num \/ tlower(doc, i + 1) \in NUMBER_WORDS)
                 /\ tlower(doc, i + 2) \in TIME_UNITS
              THEN {i, i + 1, i + 2}
              ELSE {})
             \cup
             (IF tlower(doc, i) = <<"a", "t">> /\ i < n /\ tlower(doc, i + 1) = Night_
              THEN {i, i + 1}
              ELSE {})

\* what one iteration of the loop of _identify_tokens_to_skip adds
SkipOfToken(doc, i) ==
    IF doc[i].ent_type_ \in TEMPORAL_PATTERNS THEN {i}
    ELSE IF tlower(doc, i) \in TEMPORAL_WORDS THEN {i}
    ELSE IF tlower(doc, i) \in COMMAND_VERBS THEN {i}
    ELSE IF _should_skip_article(doc, i) THEN {i}
    ELSE _get_time_phrase_indices(doc, i)

_identify_tokens_to_skip(doc) == UNION {SkipOfToken(doc, i) : i \in 1..Len(doc)}

_add_phrase_children(doc, t) ==
    UNION { {c} \cup {gg \in Children(doc, c) : doc[gg].dep_ \in {"pobj", "amod"}} :
            c \in {c \in Children(doc, t) :
                      doc[c].dep_ \in {"prep", "pobj", "amod", "compound"}} }

\* what the loop over infinitive_verb.children adds for the child c
PhraseOfChild(doc, c) ==
    IF doc[c].dep_ \in {"dobj", "pobj", "attr", "acomp", "nsubj", "nsubjpass"}
    THEN {c} \cup _add_phrase_children(doc, c)
    ELSE IF doc[c].dep_ = "prep"
    THEN {c} \cup {pc \in Children(doc, c) : doc[pc].dep_ = "pobj"}
    ELSE {}

_extract_infinitive_phrases(doc) ==
    UNION { {doc[i].head} \cup UNION {PhraseOfChild(doc, c) : c \in Children(doc, doc[i].head)} :
            i \in {i \in 1..Len(doc) :
                      /\ doc[i].dep_ = "mark"
                      /\ tlower(doc, i) = <<"t", "o">>
                      /\ doc[doc[i].head].pos_ = "VERB"} }

\* the texts of the tokens whose index is in keep, in document order
RECURSIVE TokenTexts(_, _, _)
TokenTexts(doc, keep, i) ==
    IF i > Len(doc) THEN <<>>
    ELSE (IF i \in keep THEN <<doc[i].text>> ELSE <<>>) \o TokenTexts(doc, keep, i + 1)

\* _build_title_from_tokens without the test of tokens_to_skip
_build_title_from_tokens_NoSkip(doc, tokens_to_skip, infinitive_tokens) ==
    IF infinitive_tokens = {} THEN None
    ELSE strip(join(TokenTexts(doc, infinitive_tokens, 1)))

_build_title_from_tokens(doc, tokens_to_skip, infinitive_tokens) ==
    IF infinitive_tokens = {} THEN None
    ELSE strip(join(TokenTexts(doc, infinitive_tokens \ tokens_to_skip, 1)))

FallbackKeeps(doc, i) ==
    /\ doc[i].pos_ \in {"NOUN", "VERB", "PROPN", "ADJ"} \/ isalpha(doc[i].text)
    /\ Len(doc[i].text) > 1 \/ tlower(doc, i) \in {<<"i">>, <<"a">>}

_build_title_fallback(doc, tokens_to_skip) ==
    strip(join(TokenTexts(doc,
        {i \in 1..Len(doc) : i \notin tokens_to_skip /\ FallbackKeeps(doc, i)}, 1)))

\* one iteration of the loop of _filter_words_fallback at index i with the
\* skip_indices so far: the indices it adds, and whether it reaches the append
WordStep(words, i, skip_indices) ==
    LET n == Len(words)
        word_lower == lower(words[i])
        cont(add) == [skip |-> skip_indices \cup add, append |-> FALSE]
    IN  IF word_lower \in TEMPORAL_WORDS \/ word_lower \in COMMAND_VERBS
        THEN cont({i})
        ELSE IF word_lower \in Articles /\ i > 1 /\ lower(words[i - 1]) \in COMMAND_VERBS
        THEN cont({i})
        ELSE IF word_lower = <<"a", "t">> /\ i < n /\ lower(words[i + 1]) = Night_
        THEN cont({i, i + 1})
        ELSE IF /\ word_lower \in TIME_UNITS
                /\ i > 1
                /\ (isdigit(words[i - 1]) \/ lower(words[i - 1]) \in NUMBER_WORDS)
        THEN cont({i, i - 1} \cup (IF i > 2 /\ lower(words[i - 2]) = In_ THEN {i - 2} ELSE {}))
        ELSE IF isdigit(words[i]) /\ i < n /\ lower(words[i + 1]) \in TIME_UNITS
        THEN cont({i})
        ELSE IF /\ isdigit(words[i])
                /\ i < n - 1
                /\ lower(words[i + 1]) \in DashOrTo
                /\ isdigit(words[i + 2])
                /\ i < n - 2
                /\ lower(words[i + 3]) \in AmOrPm
        THEN cont({i, i + 1, i + 2, i + 3})
        ELSE IF /\ word_lower \in DashOrTo
                /\ i > 1
                /\ i < n
                /\ isdigit(words[i - 1])
                /\ isdigit(words[i + 1])
                /\ i < n - 1
                /\ lower(words[i + 2]) \in AmOrPm
        THEN cont({i})
        ELSE [skip |-> skip_indices, append |-> i \notin skip_indices]

\* the loop of _filter_words_fallback from index i on: [filtered, skip_indices]
RECURSIVE FilterLoop(_, _, _, _)
FilterLoop(words, i, filtered, skip_indices) ==
    IF i > Len(words) THEN [filtered |-> filtered, skip_indices |-> skip_indices]
    ELSE LET st == WordStep(words, i, skip_indices)
         IN  FilterLoop(words, i + 1,
                        IF st.append THEN Append(filtered, words[i]) ELSE filtered,
                        st.skip)

_filter_words_fallback(txt) == strip(join(FilterLoop(split(txt), 1, <<>>, {}).filtered))

\* the three strategies of extract_title, in the order it tries them
TitleStrategies(txt, doc) ==
    LET tokens_to_skip == _identify_tokens_to_skip(doc)
    IN  << _build_title_from_tokens(doc, tokens_to_skip, _extract_infinitive_phrases(doc)),
           _build_title_fallback(doc, tokens_to_skip),
           _filter_words_fallback(txt) >>

\* extract_title without the last resort: the word filter's result is returned as it is
extract_title_NoLastResort(txt, doc) ==
    LET t == TitleStrategies(txt, doc)
    IN  IF t[1] # <<>> THEN t[1] ELSE IF t[2] # <<>> THEN t[2] ELSE t[3]

\* extract_title with a placeholder title as the last resort
extract_title_Placeholder(txt, doc) ==
    LET t == TitleStrategies(txt, doc)
    IN  IF t[1] # <<>> THEN t[1] ELSE IF t[2] # <<>> THEN t[2]
        ELSE IF t[3] # <<>> THEN t[3] ELSE <<"u", "n", "t", "i", "t", "l", "e", "d">>

\* extract_title, doc being self.nlp(text)
extract_title(txt, doc) ==
    LET tokens_to_skip == _identify_tokens_to_skip(doc)
        infinitive_tokens == _extract_infinitive_phrases(doc)
        t1 == _build_title_from_tokens(doc, tokens_to_skip, infinitive_tokens)
        t2 == _build_title_fallback(doc, tokens_to_skip)
        t3 == _filter_words_fallback(txt)
    IN  IF t1 # <<>> THEN t1
        ELSE IF t2 # <<>> THEN t2
        ELSE IF t3 # <<>> THEN t3
        ELSE strip(txt)

detect_intent(txt) ==
    IF startswith(normalize_text(txt), <<"r", "e", "m", "i", "n", "d", " ", "m", "e">>)
    THEN "reminder"
    ELSE "event"

\* Parser.extract_time: (h, m) or None; now is what datetime.now() returns
extract_time(txt, date_obj, now) ==
    LET d == IF date_obj = None THEN now ELSE date_obj
        time_range == extract_time_range(txt, d)
        has_time == hour(d) # 0 \/ minute(d) # 0
        explicit_time == extract_explicit_time(txt, d)
    IN  IF time_range # None THEN time_range[1]
        ELSE IF explicit_time # None THEN explicit_time
        ELSE IF has_time THEN None
        ELSE None

\* datetime.isoformat(): 'date T hh:mm:ss'
isoformat(d) == <<day(d), "T", hour(d), minute(d), second(d)>>

\* ------------------------------------------------------------------------
\* Bounds and the inputs the model draws from
\* ------------------------------------------------------------------------

MaxTicks == 1          \* times the wall clock advances during one call of parse
MaxRangeLex == 4       \* lexemes in a text given to extract_time_range
MaxTimeLex == 3        \* lexemes in a text given to extract_explicit_time
MaxNormLen == 4        \* characters in a text given to normalize_text
MaxWords == 1          \* words of a text given to parse
MaxTitleWords == 2     \* words of a text given to extract_title
MaxFilterWords == 3    \* words of a text given to _filter_words_fallback

\* every concatenation of at most n elements of L
RECURSIVE Phrases(_, _)
Phrases(L, n) ==
    IF n = 0 THEN {<<>>}
    ELSE LET P == Phrases(L, n - 1) IN P \cup {p \o l : p \in P, l \in L}

RangeLexemes == { <<"2">>, <<"4">>, <<"1", "2">>, <<"-">>, <<" ">>, <<" ", "t", "o", " ">>,
                  <<"p", "m">>, <<"A", "M">>, <<"n", "o", "w">> }
TimeLexemes == { <<"5">>, <<"3", "0">>, <<":">>, <<"-">>, <<" ">>, <<"p", "m">>,
                 <<"a", "t">>, <<"@">>, <<"n", "o", "o", "n">> }
NormChars == { <<"t">>, <<"n">>, <<"m">>, <<"r">>, <<"@">>, <<" ">>, <<"T">> }

\* the wall clock when a call starts: half a minute before midnight of day 0
StartClock == <<0, 23, 59, 30>>

Unset == <<"unset">>

\* what dateparser.parse may answer for a text: nothing, the same time tomorrow,
\* or a date at midnight
DateparserAnswers(base_date) ==
    { None, AddMinutes(base_date, 24 * 60), <<day(base_date) + 1, 0, 0, 0>> }

\* what Calendar.parseDT may answer, <<result, status>>: status 0 (nothing
\* parsed, the source time), 1 (a date), 2 (a time), 3 (a date and a time)
CalendarAnswers(base_date) ==
    { <<base_date, 0>>,
      <<AddMinutes(base_date, 24 * 60), 1>>,
      <<<<day(base_date), 17, 0, 0>>, 2>>,
      <<<<day(base_date) + 1, 17, 0, 0>>, 3>> }

\* the annotations the tokenizer may give a token: <<pos_, dep_, ent_type_>>
Tags == { <<"VERB", "ROOT", "">>, <<"PART", "mark", "">>,
          <<"NOUN", "dobj", "">>, <<"NUM", "nummod", "TIME">> }

\* token.like_num of spaCy's English lexical attributes, on digits and the
\* number words used here
like_num(t) == isdigit(t) \/ lower(t) \in {<<"t", "w", "o">>, <<"t", "e", "n">>}

\* a dependency parse is a forest: following the heads from any token ends at a
\* root, a token that is its own head
RECURSIVE ReachesRoot(_, _, _)
ReachesRoot(hd, i, fuel) ==
    IF hd[i] = i THEN TRUE
    ELSE IF fuel = 0 THEN FALSE
    ELSE ReachesRoot(hd, hd[i], fuel - 1)

IsForest(hd) == \A i \in DOMAIN hd : ReachesRoot(hd, i, Len(hd))

\* the docs self.nlp may return for a text: its whitespace-separated words,
\* each with any tag, and any forest of heads
Docs(txt) ==
    LET ws == split(txt)
        n == Len(ws)
    IN  { [i \in 1..n |-> [text |-> ws[i], pos_ |-> tg[i][1], dep_ |-> tg[i][2],
                           ent_type_ |-> tg[i][3], like_num |-> like_num(ws[i]),
                           head |-> hd[i]]] :
          tg \in [1..n -> Tags], hd \in {h \in [1..n -> 1..n] : IsForest(h)} }

\* the words of the texts given to parse
ParseWords == { <<"T", "M", "R">>, <<"l", "u", "n", "c", "h">>, <<"2", "-", "4", "p", "m">>,
                <<"n", "o", "w", "-", "5", "p", "m">>, <<"5", ":", "3", "0", "p", "m">>,
                <<"a", "t">>, <<"5", "p", "m">> }

RECURSIVE WordSeqs(_, _)
WordSeqs(W, n) ==
    IF n = 0 THEN {<<>>}
    ELSE LET P == WordSeqs(W, n - 1) IN P \cup {Append(p, w) : p \in P, w \in W}

ParseTexts ==
    {join(ws) : ws \in WordSeqs(ParseWords, MaxWords)}
    \cup {<<" ">>, <<" ", "T", "M", "R", " ">>,
          <<"i", "n", " ", "2", " ", "h", "o", "u", "r", "s">>}

\* ------------------------------------------------------------------------
\* State
\* ------------------------------------------------------------------------

VARIABLES
    pc,              \* where the call is: "call", "resolve", ..., "done", "raised"
    text,            \* the argument
    clock,           \* the wall clock, what datetime.now() returns
    ticks,           \* how often the clock has advanced
    time_range,      \* extract_time_range's result
    explicit_time,   \* extract_explicit_time's result
    normalized,      \* normalize_text(text)
    renormalized,    \* normalize_text(normalized)
    intent_type,     \* detect_intent's result
    resolved,        \* what extract_datetime read: [base_date, parsed, cal]
    date_obj,        \* local of parse
    time_tuple,      \* local of parse
    start_datetime,  \* local of parse
    doc,             \* what self.nlp returned to extract_title
    result,          \* the returned dict
    called_title     \* what extract_title or _filter_words_fallback returned, called alone

vars == <<pc, text, clock, ticks, time_range, explicit_time, normalized, renormalized,
          intent_type, resolved, date_obj, time_tuple, start_datetime, doc, result,
          called_title>>

InitLocals ==
    /\ clock = StartClock
    /\ ticks = 0
    /\ time_range = Unset
    /\ explicit_time = Unset
    /\ normalized = Unset
    /\ renormalized = Unset
    /\ intent_type = "unset"
    /\ resolved = Unset
    /\ date_obj = Unset
    /\ time_tuple = Unset
    /\ start_datetime = Unset
    /\ doc = Unset
    /\ result = Unset
    /\ called_title = Unset

\* a call of Parser.parse
Init == pc = "call" /\ text \in ParseTexts /\ InitLocals

\* ------------------------------------------------------------------------
\* Parser.extract_datetime, given the resolvers' answers
\* ------------------------------------------------------------------------

\* extract_datetime accepting the calendar's answer whatever its status
extract_datetime_AnyStatus(txt, base_date, parsed, cal) ==
    IF parsed # None THEN parsed ELSE cal[1]

extract_datetime(txt, base_date, parsed, cal) ==
    IF parsed # None THEN parsed
    ELSE IF cal[2] > 0 THEN cal[1]
    ELSE LET relative_dt == extract_relative_time(txt, base_date)
         IN  IF relative_dt # None THEN relative_dt ELSE None

\* the dict parse returns
ParsedEvent(title, dt, end, intent) ==
    [title |-> title, datetime |-> dt, end_time |-> end, type |-> intent]

EmptyEvent == ParsedEvent(<<>>, None, None, "event")

RangeEvent(title, start_dt, end_dt, intent) ==
    ParsedEvent(title, isoformat(start_dt), isoformat(end_dt), intent)

\* PlainEvent returning a single time as a range of no length
PlainEvent_EndSet(title, dt, intent) ==
    ParsedEvent(title, IF dt # None THEN isoformat(dt) ELSE None,
                IF dt # None THEN isoformat(dt) ELSE None, intent)

PlainEvent(title, dt, intent) ==
    ParsedEvent(title, IF dt # None THEN isoformat(dt) ELSE None, None, intent)

\* ------------------------------------------------------------------------
\* Parser.parse, cut where it reads the wall clock
\* ------------------------------------------------------------------------

\* the wall clock advances while a call is running
Tick ==
    /\ pc \notin {"done", "raised", "rules", "norm"}
    /\ ticks < MaxTicks
    /\ clock' = AddMinutes(clock, 1)
    /\ ticks' = ticks + 1
    /\ UNCHANGED <<called_title, pc, text, time_range, explicit_time, normalized, renormalized,
                   intent_type, resolved, date_obj, time_tuple, start_datetime, doc, result>>

\* lines 321-329: the empty check and extract_time_range(text), whose base_date
\* is datetime.now()
ParseBegin ==
    /\ pc = "call"
    /\ IF text = <<>> \/ strip(text) = <<>>
       THEN /\ result' = EmptyEvent
            /\ pc' = "done"
            /\ UNCHANGED time_range
       ELSE /\ time_range' = extract_time_range(text, clock)
            /\ pc' = "resolve"
            /\ UNCHANGED result
    /\ UNCHANGED <<called_title, text, clock, ticks, explicit_time, normalized, renormalized, intent_type,
                   resolved, date_obj, time_tuple, start_datetime, doc>>

\* lines 330-332: normalize_text, detect_intent and extract_datetime, whose
\* base_date is datetime.now()
ParseResolve ==
    /\ pc = "resolve"
    /\ normalized' = normalize_text(text)
    /\ intent_type' = detect_intent(normalized')
    /\ \E parsed \in DateparserAnswers(clock), cal \in CalendarAnswers(clock) :
          /\ resolved' = [base_date |-> clock, parsed |-> parsed, cal |-> cal]
          /\ date_obj' = extract_datetime(normalized', clock, parsed, cal)
    /\ pc' = IF time_range # None THEN "range" ELSE "time"
    /\ UNCHANGED <<called_title, text, clock, ticks, time_range, explicit_time, renormalized,
                   time_tuple, start_datetime, doc, result>>

\* lines 334-350 with a resolved date: both merges, the title, the return
ParseRangeDated ==
    /\ pc = "range"
    /\ date_obj # None
    /\ LET s == merge_datetime_time(date_obj, time_range[1])
           e == merge_datetime_time(date_obj, time_range[2])
       IN  IF s = Raised \/ e = Raised
           THEN pc' = "raised" /\ UNCHANGED <<start_datetime, doc, result>>
           ELSE /\ start_datetime' = s
                /\ \E d \in Docs(normalized) :
                      /\ doc' = d
                      /\ result' = RangeEvent(extract_title(normalized, d), s, e, intent_type)
                /\ pc' = "done"
    /\ UNCHANGED <<called_title, text, clock, ticks, time_range, explicit_time, normalized, renormalized,
                   intent_type, resolved, date_obj, time_tuple>>

\* line 340: no date was resolved, the start is merged into datetime.now()
ParseRangeStart ==
    /\ pc = "range"
    /\ date_obj = None
    /\ LET s == merge_datetime_time(clock, time_range[1])
       IN  IF s = Raised
           THEN pc' = "raised" /\ UNCHANGED start_datetime
           ELSE pc' = "range_end" /\ start_datetime' = s
    /\ UNCHANGED <<called_title, text, clock, ticks, time_range, explicit_time, normalized, renormalized,
                   intent_type, resolved, date_obj, time_tuple, doc, result>>

\* lines 341-350: the end is merged into datetime.now(), the title, the return
ParseRangeEnd ==
    /\ pc = "range_end"
    /\ LET e == merge_datetime_time(clock, time_range[2])
       IN  IF e = Raised
           THEN pc' = "raised" /\ UNCHANGED <<doc, result>>
           ELSE /\ \E d \in Docs(normalized) :
                      /\ doc' = d
                      /\ result' = RangeEvent(extract_title(normalized, d), start_datetime, e,
                                              intent_type)
                /\ pc' = "done"
    /\ UNCHANGED <<called_title, text, clock, ticks, time_range, explicit_time, normalized, renormalized,
                   intent_type, resolved, date_obj, time_tuple, start_datetime>>

\* line 352: extract_time(text, date_obj), which reads datetime.now() when
\* date_obj is None
ParseTime ==
    /\ pc = "time"
    /\ time_tuple' = extract_time(text, date_obj, clock)
    /\ pc' = "merge"
    /\ UNCHANGED <<called_title, text, clock, ticks, time_range, explicit_time, normalized, renormalized,
                   intent_type, resolved, date_obj, start_datetime, doc, result>>

\* lines 354-357: date_obj after the merge
MergedDate(d, t, now) ==
    IF d # None /\ t # None THEN merge_datetime_time(d, t)
    ELSE IF t # None /\ d = None THEN merge_datetime_time(now, t)
    ELSE d

\* lines 354-368: the merge, the title, the return
ParseFinish ==
    /\ pc = "merge"
    /\ LET d == MergedDate(date_obj, time_tuple, clock)
       IN  IF d = Raised
           THEN pc' = "raised" /\ UNCHANGED <<date_obj, doc, result>>
           ELSE /\ date_obj' = d
                /\ \E dc \in Docs(normalized) :
                      /\ doc' = dc
                      /\ result' = PlainEvent(extract_title(normalized, dc), d, intent_type)
                /\ pc' = "done"
    /\ UNCHANGED <<called_title, text, clock, ticks, time_range, explicit_time, normalized, renormalized,
                   intent_type, resolved, time_tuple, start_datetime>>

Next ==
    \/ Tick
    \/ ParseBegin
    \/ ParseResolve
    \/ ParseRangeDated
    \/ ParseRangeStart
    \/ ParseRangeEnd
    \/ ParseTime
    \/ ParseFinish

Spec == Init /\ [][Next]_vars

\* ------------------------------------------------------------------------
\* The rules on their own: extract_explicit_time and extract_time_range on
\* every text of a few lexemes, normalize_text applied twice
\* ------------------------------------------------------------------------

CallExplicitTime ==
    /\ pc = "rules"
    /\ explicit_time = Unset
    /\ explicit_time' = extract_explicit_time(text, clock)
    /\ UNCHANGED <<called_title, pc, text, clock, ticks, time_range, normalized, renormalized, intent_type,
                   resolved, date_obj, time_tuple, start_datetime, doc, result>>

CallTimeRange ==
    /\ pc = "rules"
    /\ time_range = Unset
    /\ time_range' = extract_time_range(text, clock)
    /\ UNCHANGED <<called_title, pc, text, clock, ticks, explicit_time, normalized, renormalized, intent_type,
                   resolved, date_obj, time_tuple, start_datetime, doc, result>>

InitTime == pc = "rules" /\ text \in Phrases(TimeLexemes, MaxTimeLex) /\ InitLocals

NextTime ==
    \/ CallExplicitTime
    \/ CallTimeRange

SpecTime == InitTime /\ [][NextTime]_vars

InitRange == pc = "rules" /\ text \in Phrases(RangeLexemes, MaxRangeLex) /\ InitLocals

NextRange == CallTimeRange

SpecRange == InitRange /\ [][NextRange]_vars

\* normalize_text(text), as parse calls it
CallNormalize ==
    /\ pc = "norm"
    /\ normalized = Unset
    /\ normalized' = normalize_text(text)
    /\ UNCHANGED <<called_title, pc, text, clock, ticks, time_range, explicit_time, renormalized, intent_type,
                   resolved, date_obj, time_tuple, start_datetime, doc, result>>

\* normalize_text(normalized), as detect_intent calls it on parse's normalized text
CallNormalizeAgain ==
    /\ pc = "norm"
    /\ normalized # Unset
    /\ renormalized = Unset
    /\ renormalized' = normalize_text(normalized)
    /\ UNCHANGED <<called_title, pc, text, clock, ticks, time_range, explicit_time, normalized, intent_type,
                   resolved, date_obj, time_tuple, start_datetime, doc, result>>

InitNorm == pc = "norm" /\ text \in Phrases(NormChars, MaxNormLen) /\ InitLocals

NextNorm ==
    \/ CallNormalize
    \/ CallNormalizeAgain

SpecNorm == InitNorm /\ [][NextNorm]_vars

\* ------------------------------------------------------------------------
\* extract_title on its own, on short texts with every doc the tokenizer may
\* return for them
\* ------------------------------------------------------------------------

TitleWords == { <<"t", "o">>, <<"c", "a", "l", "l">>, <<"t", "m", "r">>, <<"m", "o", "m">> }

TitleTexts ==
    {join(ws) : ws \in WordSeqs(TitleWords, MaxTitleWords)}
    \cup {<<"t", "o", " ", "c", "a", "l", "l", " ", "t", "m", "r">>,
          <<"t", "o", " ", "c", "a", "l", "l", " ", "m", "o", "m">>}

CallExtractTitle ==
    /\ pc = "title"
    /\ called_title = Unset
    /\ \E d \in Docs(text) :
          /\ doc' = d
          /\ called_title' = extract_title(text, d)
    /\ UNCHANGED <<pc, text, clock, ticks, time_range, explicit_time, normalized, renormalized,
                   intent_type, resolved, date_obj, time_tuple, start_datetime, result>>

InitTitle == pc = "title" /\ text \in TitleTexts /\ InitLocals

NextTitle == CallExtractTitle

SpecTitle == InitTitle /\ [][NextTitle]_vars

\* ------------------------------------------------------------------------
\* _filter_words_fallback on its own
\* ------------------------------------------------------------------------

FilterWords == { <<"i", "n">>, <<"f", "i", "v", "e">>, <<"5">>, <<"m", "i", "n", "u", "t", "e", "s">>,
                 <<"l", "u", "n", "c", "h">>, <<"-">>, <<"p", "m">> }

CallFilterWords ==
    /\ pc = "words"
    /\ called_title = Unset
    /\ called_title' = _filter_words_fallback(text)
    /\ UNCHANGED <<pc, text, clock, ticks, time_range, explicit_time, normalized, renormalized,
                   intent_type, resolved, date_obj, time_tuple, start_datetime, doc, result>>

InitWords ==
    /\ pc = "words"
    /\ text \in {join(ws) : ws \in WordSeqs(FilterWords, MaxFilterWords)}
    /\ InitLocals

NextWords == CallFilterWords

SpecWords == InitWords /\ [][NextWords]_vars

\* ------------------------------------------------------------------------
\* Properties
\* ------------------------------------------------------------------------

HasTime(d) == hour(d) # 0 \/ minute(d) # 0

RangeDetected == extract_time_range(text, StartClock) # None

AllStrategiesEmpty ==
    LET t == TitleStrategies(normalized, doc)
    IN  t[1] = <<>> /\ t[2] = <<>> /\ t[3] = <<>>

ValidTimeOfDay(t) == t[1] \in 0..23 /\ t[2] \in 0..59

\* C1: with no time range and a resolved date that has a time component,
\* extract_time returns None, so the date keeps the resolver's hour and minute
C1_TimeNotReextracted ==
    (pc = "merge" /\ date_obj # None /\ HasTime(date_obj)) => time_tuple = None

\* C2 as stated: for every nonempty text the title parse returns is not empty
C2_TitleOfNonemptyText ==
    (pc = "done" /\ text # <<>>) => result.title # <<>>

\* C2 amended: for every text with a character that is not whitespace the
\* title parse returns is not empty
C2_TitleOfNonblankText ==
    (pc = "done" /\ strip(text) # <<>>) => result.title # <<>>

C2_Witness ==
    pc = "done" /\ strip(text) # <<>> /\ AllStrategiesEmpty /\ result.title # <<>>

\* C3: the result has end_time set exactly when extract_time_range detects a
\* range in the text, and then datetime is set too
C3_EndTimeIffRange ==
    pc = "done" =>
        /\ (result.end_time # None) <=> RangeDetected
        /\ result.end_time # None => result.datetime # None

C3_Witness ==
    pc = "done" /\ result.end_time # None /\ result.datetime # None /\ RangeDetected

\* C4: parse raises no exception when the tokenizer and the date resolvers
\* return normally
C4_NoException == pc # "raised"

\* C5: every time of day extract_explicit_time returns, and both ends of every
\* range extract_time_range returns, have an hour in 0..23 and a minute in 0..59
C5_TimeOfDayInRange ==
    /\ explicit_time \notin {Unset, None} => ValidTimeOfDay(explicit_time)
    /\ time_range \notin {Unset, None} =>
          ValidTimeOfDay(time_range[1]) /\ ValidTimeOfDay(time_range[2])

\* C6 as stated: when the three strategies yield nothing, the title is the
\* original text trimmed
C6_FallbackIsTrimmedInput ==
    (pc = "done" /\ strip(text) # <<>> /\ AllStrategiesEmpty) => result.title = strip(text)

\* C6 amended: when the three strategies yield nothing, the title is the
\* normalized text (lower case, trimmed, '@' as 'at', abbreviations expanded)
C6_FallbackIsNormalizedInput ==
    (pc = "done" /\ strip(text) # <<>> /\ AllStrategiesEmpty) =>
        result.title = normalize_text(text)

C6_Witness ==
    /\ pc = "done"
    /\ text = <<" ", "T", "M", "R", " ">>
    /\ AllStrategiesEmpty
    /\ result.title = <<"t", "o", "m", "o", "r", "r", "o", "w">>

\* C7: the clock is read once per call, so in the range branch datetime and
\* end_time carry the same calendar date even if the clock advances
C7_RangeOnOneDate ==
    (pc = "done" /\ result.end_time # None) => result.datetime[1] = result.end_time[1]

\* C8: normalize_text is idempotent
C8_NormalizeIdempotent ==
    renormalized # Unset => renormalized = normalized

C8_Witness ==
    /\ renormalized # Unset
    /\ normalized # lower(text)
    /\ contains(normalized, <<"a", "t">>)
    /\ contains(normalized, <<"t", "o", "n", "i", "g", "h", "t">>)

\* C9: extract_datetime returns the first accepted of dateparser's answer, the
\* calendar's answer when its status is positive, and extract_relative_time's
\* result; None exactly when all three fail
C9_StagesInOrder ==
    pc \in {"range", "range_end", "time", "merge"} =>
        LET rel == extract_relative_time(normalized, resolved.base_date)
        IN  /\ resolved.parsed # None => date_obj = resolved.parsed
            /\ (resolved.parsed = None /\ resolved.cal[2] > 0) => date_obj = resolved.cal[1]
            /\ (resolved.parsed = None /\ resolved.cal[2] <= 0) => date_obj = rel
            /\ date_obj = None <=>
                  (resolved.parsed = None /\ resolved.cal[2] <= 0 /\ rel = None)

C9_Witness ==
    /\ pc = "time"
    /\ resolved.parsed = None
    /\ resolved.cal[2] = 0
    /\ date_obj = AddMinutes(resolved.base_date, 120)

\* the conversion c of C10: pm and hour # 12 adds 12, am and hour = 12 gives 0
MeridiemHour(h, period) ==
    IF period = PM /\ h # 12 THEN h + 12
    ELSE IF period = AM /\ h = 12 THEN 0
    ELSE h

HourLexemes == { <<"2">>, <<"4">>, <<"1", "2">> }

\* C10: when the first matching form is 'H1-H2{am|pm}' or 'H1 to H2{am|pm}',
\* the result is ((c(H1), 0), (c(H2), 0)), the one trailing meridiem applied to
\* both hours
C10_RangeMeridiemOnBoth ==
    time_range # Unset =>
        /\ LET f == FirstRangeMatch(lower(text), 1)
           IN  (f.found /\ f.ty \in {"range_12h", "range_12h_to"}) =>
                  time_range = << <<MeridiemHour(int(f.m.g[1]), f.m.g[3]), 0>>,
                                   <<MeridiemHour(int(f.m.g[2]), f.m.g[3]), 0>> >>
        /\ \A h1 \in HourLexemes, h2 \in HourLexemes,
              sep \in {<<"-">>, <<" ", "-">>, <<" ", "t", "o", " ">>},
              mer \in {<<"p", "m">>, <<"A", "M">>} :
              text = h1 \o sep \o h2 \o mer =>
                  time_range = << <<MeridiemHour(int(h1), lower(mer)), 0>>,
                                   <<MeridiemHour(int(h2), lower(mer)), 0>> >>

C10_Witness ==
    /\ text = <<"2", "-", "4", "p", "m">>
    /\ time_range = << <<14, 0>>, <<16, 0>> >>

\* x is a join, in document order, of tokens of doc with no index in skip
JoinOfUnskipped(x, d, skip) ==
    \E keep \in SUBSET ((1..Len(d)) \ skip) : x = join(TokenTexts(d, keep, 1))

\* C11: a title built by the infinitive-phrase strategy or by the part-of-speech
\* fallback is a join, in document order, of tokens with no index in the skip-set
\* of _identify_tokens_to_skip, and the fallback's title is returned only when
\* the infinitive-phrase strategy yielded none
C11_TitleAvoidsSkipSet ==
    called_title # Unset =>
        LET skip == _identify_tokens_to_skip(doc)
            t == TitleStrategies(text, doc)
        IN  /\ t[1] # <<>> =>
                  called_title = t[1] /\ JoinOfUnskipped(called_title, doc, skip)
            /\ (t[1] = <<>> /\ t[2] # <<>>) =>
                  called_title = t[2] /\ JoinOfUnskipped(called_title, doc, skip)

C11_Witness ==
    /\ called_title = <<"c", "a", "l", "l">>
    /\ text = <<"t", "o", " ", "c", "a", "l", "l", " ", "t", "m", "r">>
    /\ _extract_infinitive_phrases(doc) = {2, 3}
    /\ _identify_tokens_to_skip(doc) = {1, 3}

\* the words of ws whose index is in keep, in order
RECURSIVE PickWords(_, _, _)
PickWords(ws, keep, i) ==
    IF i > Len(ws) THEN <<>>
    ELSE (IF i \in keep THEN <<ws[i]>> ELSE <<>>) \o PickWords(ws, keep, i + 1)

\* C12: no word whose index ends up in skip_indices is in the string
\* _filter_words_fallback returns: the string is a join of words with no index
\* in skip_indices, so a number word before a time unit goes with the unit
C12_SkippedWordsRemoved ==
    (pc = "words" /\ called_title # Unset) =>
        LET ws == split(text)
            skip == FilterLoop(ws, 1, <<>>, {}).skip_indices
        IN  \E keep \in SUBSET ((1..Len(ws)) \ skip) :
                called_title = join(PickWords(ws, keep, 1))

====
